---- MODULE Spec2Model ----
(***************************************************************************)
(* Model of weaveenv/plugins.py: the plugin install manager (source and    *)
(* virtualenv directories on disk), the plugin execution manager (persisted *)
(* enabled flag and token, in-memory active set) and the HTTP facade        *)
(* (PluginManager) with its in-memory catalog.                              *)
(*                                                                          *)
(* Every operation is one atomic action.  The outcome of an external        *)
(* collaborator (git clone, pip, the plugin service's start / wait / stop,  *)
(* the GitHub listing) is an input of the action, drawn with \E.            *)
(***************************************************************************)
EXTENDS Integers, Sequences, FiniteSets, TLC

(***************************************************************************)
(* Bounds of the model.                                                     *)
(***************************************************************************)
\* longest token, in characters, that a caller passes
MaxTokenLen == 1

PluginIds == {"p1", "p2"}

\* characters of a token: a whitespace character and a non-whitespace one
TokenChars == {" ", "x"}

RECURSIVE SeqsUpTo(_)
SeqsUpTo(n) ==
    IF n = 0 THEN {<<>>}
    ELSE LET shorter == SeqsUpTo(n - 1)
         IN  shorter \cup {Append(s, c) : s \in {t \in shorter : Len(t) = n - 1},
                                          c \in TokenChars}

Tokens == SeqsUpTo(MaxTokenLen)

(***************************************************************************)
(* str.strip(): removes leading and trailing whitespace.                    *)
(***************************************************************************)
RECURSIVE lstrip(_)
lstrip(s) == IF s # <<>> /\ Head(s) = " " THEN lstrip(Tail(s)) ELSE s

RECURSIVE rstrip(_)
rstrip(s) ==
    IF s # <<>> /\ s[Len(s)] = " " THEN rstrip(SubSeq(s, 1, Len(s) - 1)) ELSE s

\* strip that removes nothing
strip_keeps(s) == s

strip(s) == rstrip(lstrip(s))

(***************************************************************************)
(* State.                                                                   *)
(***************************************************************************)
VARIABLES
    src_dir,         \* src_dir[id]: the directory <plugin_dir>/<id> exists
    venv_dir,        \* venv_dir[id]: the directory <venv_dir>/<id> exists
    database,        \* database[id]: the persisted execution record, or NoRecord
    active_plugins,  \* active_plugins[id]: Service when a service object is
                     \* stored under id, NoService when the key is absent
    plugins,         \* the facade's catalog: plugins[id] is NoInfo or the
                     \* last projected state of the plugin
    last,            \* the last call: operation, id, what the external
                     \* collaborators did in it, result, and the number of
                     \* service_start / service_stop calls it made
    tick,            \* flips at every call
    threads          \* threads[t]: the call that thread t is in (or the
                     \* last it returned from) and where in it the thread
                     \* is blocked

vars ==
    <<src_dir, venv_dir, database, active_plugins, plugins, last, tick,
      threads>>

NoRecord == [record |-> FALSE]
NoService == "NoService"
NoInfo == [info |-> FALSE]

Records == [enabled : BOOLEAN, app_secret_token : Tokens]
Service == "Service"
PluginInfos == [installed : BOOLEAN, enabled : BOOLEAN, active : BOOLEAN]

\* results of a call: a returned value or the exception that leaves the call
RetTrue == "True"
RetFalse == "False"
RetNone == "None"
RetPlugin == "InstalledPlugin"
NotEnabledError == "ValueError: Plugin is not enabled."
NotActiveError == "ValueError: Plugin is not active."
InvalidTokenError == "ValueError: Invalid token."
NotFoundError == "ValueError: Unable to find plugin."
StartFailedError == "Exception: Unable to start plugin."
ServiceError == "exception raised by the plugin service"
FileNotFoundError == "FileNotFoundError"
TypeError == "TypeError"
AttributeError == "AttributeError"
KeyError == "KeyError"

\* the threads that call into the managers
Threads == {"t1", "t2"}

\* a thread that is in no call
Idle ==
    [op |-> "none", id |-> "none", pc |-> "idle", result |-> RetNone,
     started |-> FALSE]

\* thread t is blocked inside a call
InFlight(t) == threads[t].pc \notin {"idle", "returned"}

\* a call in which no external collaborator acts
NoInput == [none |-> TRUE]

Call(op, id, input, result, starts, stops) ==
    [op |-> op, id |-> id, input |-> input, result |-> result,
     starts |-> starts, stops |-> stops]

TypeOK ==
    /\ src_dir \in [PluginIds -> BOOLEAN]
    /\ venv_dir \in [PluginIds -> BOOLEAN]
    /\ database \in [PluginIds -> Records \cup {NoRecord}]
    /\ active_plugins \in [PluginIds -> {Service, NoService}]
    /\ plugins \in [PluginIds -> PluginInfos \cup {NoInfo}]
    /\ tick \in BOOLEAN
    /\ threads \in [Threads -> [op : {"none", "install", "activate"},
                                id : PluginIds \cup {"none"},
                                pc : {"idle", "clone_from",
                                      "create_environment", "check_call",
                                      "wait_for_start", "returned"},
                                result : STRING,
                                started : BOOLEAN]]

(***************************************************************************)
(* The state after construction.  The base path is persistent: the          *)
(* directories of a plugin may be left by an earlier run (the constructor   *)
(* makes the plugin directory with exist_ok=True).  The database has no     *)
(* record, the active set and the catalog are empty.                        *)
(***************************************************************************)
Init ==
    /\ src_dir \in [PluginIds -> BOOLEAN]
    /\ venv_dir \in [PluginIds -> BOOLEAN]
    /\ database = [id \in PluginIds |-> NoRecord]
    /\ active_plugins = [id \in PluginIds |-> NoService]
    /\ plugins = [id \in PluginIds |-> NoInfo]
    /\ last = Call("init", "none", NoInput, RetNone, 0, 0)
    /\ tick = FALSE
    /\ threads = [t \in Threads |-> Idle]

(***************************************************************************)
(* PluginsDatabase.                                                         *)
(***************************************************************************)
\* database.query(plugin_id) raises ValueError when there is no record
query_raises(id) == database[id] = NoRecord

\* plugins_db.insert(app_id=..., app_secret_token=..., is_remote=True)
insert(id, token) ==
    /\ database[id] = NoRecord
    /\ database' = [database EXCEPT ![id] =
                        [enabled |-> FALSE, app_secret_token |-> token]]
    /\ last' = Call("insert", id, NoInput, RetNone, 0, 0)
    /\ tick' = ~tick
    /\ UNCHANGED <<src_dir, venv_dir, active_plugins, plugins, threads>>

(***************************************************************************)
(* PluginExecutionManager.                                                  *)
(***************************************************************************)
is_enabled(id) ==
    IF query_raises(id) THEN FALSE
    ELSE /\ database[id].enabled
         /\ Len(database[id].app_secret_token) > 0

\* is_active that looks the id up among the stored services, not the keys
is_active_never(id) == FALSE

is_active(id) == active_plugins[id] # NoService

enable(id) ==
    /\ IF query_raises(id)
       THEN /\ last' = Call("enable", id, NoInput, RetFalse, 0, 0)
            /\ UNCHANGED database
       ELSE /\ IF database[id].enabled
               THEN UNCHANGED database
               ELSE database' = [database EXCEPT ![id].enabled = TRUE]
            /\ last' = Call("enable", id, NoInput, RetTrue, 0, 0)
    /\ tick' = ~tick
    /\ UNCHANGED <<src_dir, venv_dir, active_plugins, plugins, threads>>

disable(id) ==
    /\ IF query_raises(id)
       THEN /\ last' = Call("disable", id, NoInput, RetFalse, 0, 0)
            /\ UNCHANGED database
       ELSE /\ IF ~database[id].enabled
               THEN UNCHANGED database
               ELSE database' = [database EXCEPT ![id].enabled = FALSE]
            /\ last' = Call("disable", id, NoInput, RetTrue, 0, 0)
    /\ tick' = ~tick
    /\ UNCHANGED <<src_dir, venv_dir, active_plugins, plugins, threads>>

update_token(id, token) ==
    /\ IF strip(token) = <<>>
       THEN /\ last' = Call("update_token", id, [token |-> token],
                         InvalidTokenError, 0, 0)
            /\ UNCHANGED database
       ELSE IF query_raises(id)
       THEN /\ last' = Call("update_token", id, [token |-> token],
                         NotFoundError, 0, 0)
            /\ UNCHANGED database
       ELSE /\ database' = [database EXCEPT ![id].app_secret_token = token]
            /\ last' = Call("update_token", id, [token |-> token], RetTrue,
                            0, 0)
    /\ tick' = ~tick
    /\ UNCHANGED <<src_dir, venv_dir, active_plugins, plugins, threads>>

\* what the plugin service does when it is started
StartOutcomes == {"ready", "timeout", "start_raises"}

\* run_plugin that drops the value of wait_for_start
run_plugin_ignores_wait(svc) ==
    IF svc = "start_raises"
    THEN [ret |-> "raise", starts |-> 1, stops |-> 0]
    ELSE [ret |-> RetTrue, starts |-> 1, stops |-> 0]

\* run_plugin(service, timeout): the value returned ("raise" when
\* service_start raises) and the service calls made
run_plugin(svc) ==
    IF svc = "start_raises"
    THEN [ret |-> "raise", starts |-> 1, stops |-> 0]
    ELSE IF svc = "timeout"
    THEN [ret |-> RetFalse, starts |-> 1, stops |-> 1]
    ELSE [ret |-> RetTrue, starts |-> 1, stops |-> 0]

\* activate that tests the enabled flag of the record and not the token
activate_checks_flag_only(id, svc) ==
    /\ IF query_raises(id) \/ ~database[id].enabled
       THEN /\ last' = Call("activate", id, NoInput, NotEnabledError, 0, 0)
            /\ UNCHANGED active_plugins
       ELSE IF is_active(id)
       THEN /\ last' = Call("activate", id, NoInput, RetTrue, 0, 0)
            /\ UNCHANGED active_plugins
       ELSE LET r == run_plugin(svc) IN
            IF r.ret = "raise"
            THEN /\ last' = Call("activate", id, [svc |-> svc], ServiceError,
                                 r.starts, r.stops)
                 /\ UNCHANGED active_plugins
            ELSE IF r.ret = RetFalse
            THEN /\ last' = Call("activate", id, [svc |-> svc],
                                 StartFailedError, r.starts, r.stops)
                 /\ UNCHANGED active_plugins
            ELSE /\ active_plugins' = [active_plugins EXCEPT ![id] = Service]
                 /\ last' = Call("activate", id, [svc |-> svc], RetTrue,
                                 r.starts, r.stops)
    /\ tick' = ~tick
    /\ UNCHANGED <<src_dir, venv_dir, database, plugins, threads>>

activate(id, svc) ==
    /\ IF ~is_enabled(id)
       THEN /\ last' = Call("activate", id, NoInput, NotEnabledError, 0, 0)
            /\ UNCHANGED active_plugins
       ELSE IF is_active(id)
       THEN /\ last' = Call("activate", id, NoInput, RetTrue, 0, 0)
            /\ UNCHANGED active_plugins
       ELSE LET r == run_plugin(svc) IN
            IF r.ret = "raise"
            THEN /\ last' = Call("activate", id, [svc |-> svc], ServiceError,
                                 r.starts, r.stops)
                 /\ UNCHANGED active_plugins
            ELSE IF r.ret = RetFalse
            THEN /\ last' = Call("activate", id, [svc |-> svc],
                                 StartFailedError, r.starts, r.stops)
                 /\ UNCHANGED active_plugins
            ELSE /\ active_plugins' = [active_plugins EXCEPT ![id] = Service]
                 /\ last' = Call("activate", id, [svc |-> svc], RetTrue,
                                 r.starts, r.stops)
    /\ tick' = ~tick
    /\ UNCHANGED <<src_dir, venv_dir, database, plugins, threads>>

\* what service_stop does: it returns or it raises
StopOutcomes == {"ok", "raises"}

\* stop_plugin(service): whether the call raises, and the service calls made
stop_plugin(stop) == [raised |-> (stop = "raises"), starts |-> 0, stops |-> 1]

\* deactivate without the test of the active set
deactivate_unguarded(id, stop) ==
    /\ LET r == stop_plugin(stop) IN
       /\ UNCHANGED active_plugins
       /\ last' = Call("deactivate", id, [stop |-> stop],
                       IF r.raised THEN ServiceError ELSE RetTrue,
                       r.starts, r.stops)
    /\ tick' = ~tick
    /\ UNCHANGED <<src_dir, venv_dir, database, plugins, threads>>

deactivate(id, stop) ==
    /\ IF ~is_active(id)
       THEN /\ last' = Call("deactivate", id, NoInput, NotActiveError, 0, 0)
            /\ UNCHANGED active_plugins
       ELSE LET r == stop_plugin(stop) IN
            /\ UNCHANGED active_plugins
            /\ last' = Call("deactivate", id, [stop |-> stop],
                            IF r.raised THEN ServiceError ELSE RetTrue,
                            r.starts, r.stops)
    /\ tick' = ~tick
    /\ UNCHANGED <<src_dir, venv_dir, database, plugins, threads>>

(***************************************************************************)
(* VirtualEnvManager, InstalledPlugin, GitPlugin: pure steps on the two     *)
(* directories of one plugin id.                                            *)
(***************************************************************************)
\* what git.Repo.clone_from does: it clones, or it raises and leaves no
\* directory, or it raises and leaves a partial directory
FetchOutcomes == {"ok", "fail_clean", "fail_leftover"}

\* what pip does with the requirements file
PipOutcomes == {"ok", "fail"}

\* what happens outside the program during an install: the clone, whether
\* the cloned tree has a requirements.txt, and pip (which runs only on a
\* requirements file)
InstallInputs ==
    {i \in [fetch : FetchOutcomes, has_requirements : BOOLEAN, pip : PipOutcomes] :
        ~i.has_requirements => i.pip = "ok"}

\* GitPlugin.clone: [raised, src]; an existing directory is removed first
clone(src, fetch) ==
    IF fetch = "ok" THEN [raised |-> FALSE, src |-> TRUE]
    ELSE [raised |-> TRUE, src |-> (fetch = "fail_leftover")]

\* VirtualEnvManager.install: [ret, venv]
VirtualEnvManager_install(venv, has_requirements, pip) ==
    IF venv THEN [ret |-> TRUE, venv |-> TRUE]
    ELSE IF has_requirements /\ pip = "fail"
    THEN [ret |-> FALSE, venv |-> TRUE]
    ELSE [ret |-> TRUE, venv |-> TRUE]

\* InstalledPlugin.clean that removes nothing
InstalledPlugin_clean_keeps(src) == src

\* InstalledPlugin.clean: the source directory afterwards
InstalledPlugin_clean(src) == IF src THEN FALSE ELSE src

\* VirtualEnvManager.clean that removes nothing
VirtualEnvManager_clean_keeps(venv) == [raised |-> ~venv, venv |-> venv]

\* VirtualEnvManager.clean: shutil.rmtree(venv_home) raises on a missing path
VirtualEnvManager_clean(venv) ==
    IF venv THEN [raised |-> FALSE, venv |-> FALSE]
    ELSE [raised |-> TRUE, venv |-> FALSE]

(***************************************************************************)
(* PluginInstallManager.                                                    *)
(***************************************************************************)
is_installed(id) ==
    LET plugin_dir == src_dir[id]
        venv_dir_ == src_dir[id]
    IN  plugin_dir /\ venv_dir_

venv_exists(id) == venv_dir[id]

\* uninstall on the directories (src, venv) of an id: [result, src, venv]
uninstall_outcome(src, venv) ==
    LET c == VirtualEnvManager_clean(venv)
    IN  [result |-> IF c.raised THEN FileNotFoundError ELSE RetNone,
         src |-> InstalledPlugin_clean(src),
         venv |-> c.venv]

\* install on the directories (src, venv) of an id: [result, src, venv].
\* A failure of the clone or of the virtualenv is caught and rolled back
\* with uninstall; an exception of the rollback leaves install.
install_outcome(src, venv, i) ==
    LET c == clone(src, i.fetch)
        v == VirtualEnvManager_install(venv, i.has_requirements, i.pip)
    IN  IF c.raised
        THEN uninstall_outcome(c.src, venv)
        ELSE IF ~v.ret
        THEN uninstall_outcome(c.src, v.venv)
        ELSE [result |-> RetPlugin, src |-> c.src, venv |-> v.venv]

PluginInstallManager_install(id, i) ==
    LET r == install_outcome(src_dir[id], venv_dir[id], i)
    IN  /\ src_dir' = [src_dir EXCEPT ![id] = r.src]
        /\ venv_dir' = [venv_dir EXCEPT ![id] = r.venv]
        /\ last' = Call("install", id, i, r.result, 0, 0)
        /\ tick' = ~tick
        /\ UNCHANGED <<database, active_plugins, plugins, threads>>

PluginInstallManager_uninstall(id) ==
    LET r == uninstall_outcome(src_dir[id], venv_dir[id])
    IN  /\ src_dir' = [src_dir EXCEPT ![id] = r.src]
        /\ venv_dir' = [venv_dir EXCEPT ![id] = r.venv]
        /\ last' = Call("uninstall", id, NoInput, r.result, 0, 0)
        /\ tick' = ~tick
        /\ UNCHANGED <<database, active_plugins, plugins, threads>>

(***************************************************************************)
(* PluginManager, the facade.                                               *)
(***************************************************************************)
\* extract_plugin_info builds PluginStateFilter, whose constructor takes two
\* managers, with one: the call raises TypeError before any filter runs
extract_plugin_info_raises == TRUE

\* start(): the catalog is emptied, then every listed repository is
\* projected and stored
PluginManager_start(repos) ==
    /\ plugins' = [id \in PluginIds |-> NoInfo]
    /\ last' = Call("start", "none", [repos |-> repos],
                    IF repos # {} /\ extract_plugin_info_raises
                    THEN TypeError ELSE RetNone, 0, 0)
    /\ tick' = ~tick
    /\ UNCHANGED <<src_dir, venv_dir, database, active_plugins, threads>>

PluginManager_install(id) ==
    /\ IF plugins[id] = NoInfo
       THEN /\ last' = Call("facade_install", id, NoInput, "404", 0, 0)
            /\ UNCHANGED <<src_dir, venv_dir>>
       ELSE \E i \in InstallInputs :
            LET r == install_outcome(src_dir[id], venv_dir[id], i)
            IN  /\ src_dir' = [src_dir EXCEPT ![id] = r.src]
                /\ venv_dir' = [venv_dir EXCEPT ![id] = r.venv]
                /\ last' = Call("facade_install", id, i,
                                IF r.result = RetNone THEN "400"
                                ELSE IF r.result # RetPlugin THEN r.result
                                ELSE IF extract_plugin_info_raises
                                THEN TypeError ELSE "200", 0, 0)
    /\ tick' = ~tick
    /\ UNCHANGED <<database, active_plugins, plugins, threads>>

PluginManager_uninstall(id) ==
    /\ IF plugins[id] = NoInfo
       THEN /\ last' = Call("facade_uninstall", id, NoInput, "404", 0, 0)
            /\ UNCHANGED <<src_dir, venv_dir>>
       ELSE LET r == uninstall_outcome(src_dir[id], venv_dir[id])
            IN  /\ src_dir' = [src_dir EXCEPT ![id] = r.src]
                /\ venv_dir' = [venv_dir EXCEPT ![id] = r.venv]
                /\ last' = Call("facade_uninstall", id, NoInput,
                                IF r.result # RetNone THEN r.result
                                ELSE IF extract_plugin_info_raises
                                THEN TypeError ELSE "200", 0, 0)
    /\ tick' = ~tick
    /\ UNCHANGED <<database, active_plugins, plugins, threads>>

\* activate and deactivate of the facade answer without reading params
PluginManager_activate(id) ==
    /\ last' = Call("facade_activate", id, NoInput, "200", 0, 0)
    /\ tick' = ~tick
    /\ UNCHANGED <<src_dir, venv_dir, database, active_plugins, plugins,
                   threads>>

PluginManager_deactivate(id) ==
    /\ last' = Call("facade_deactivate", id, NoInput, "200", 0, 0)
    /\ tick' = ~tick
    /\ UNCHANGED <<src_dir, venv_dir, database, active_plugins, plugins,
                   threads>>

\* update_token of the facade: the handler of ValueError reads e.message,
\* which an exception does not have, so AttributeError leaves the call; on
\* success the summary is made from the catalog entry as it was
PluginManager_update_token(id, token) ==
    /\ IF plugins[id] = NoInfo
       THEN /\ last' = Call("facade_update_token", id, NoInput, "404", 0, 0)
            /\ UNCHANGED database
       ELSE IF strip(token) = <<>> \/ query_raises(id)
       THEN /\ last' = Call("facade_update_token", id, [token |-> token],
                            AttributeError, 0, 0)
            /\ UNCHANGED database
       ELSE /\ database' = [database EXCEPT ![id].app_secret_token = token]
            /\ last' = Call("facade_update_token", id, [token |-> token],
                            "200", 0, 0)
    /\ tick' = ~tick
    /\ UNCHANGED <<src_dir, venv_dir, active_plugins, plugins, threads>>

\* list: the summaries of the catalog entries
PluginManager_list ==
    /\ last' = Call("list", "none", NoInput, "200", 0, 0)
    /\ tick' = ~tick
    /\ UNCHANGED <<src_dir, venv_dir, database, active_plugins, plugins,
                   threads>>

(***************************************************************************)
(* State projection: PluginInfoFilter.                                      *)
(***************************************************************************)
\* what the filter finds in the install path: no plugin.json, one that is
\* not JSON, one without "service", a service reference without a dot, a
\* module without the class, a module whose import raises ImportError, a
\* module whose import raises something else, or a loadable class
ManifestStates ==
    {"missing", "unparseable", "no_service_field", "service_without_dot",
     "class_not_found", "import_error", "import_raises_other", "ok"}

\* outcomes of the filter: the object is returned as it came, returned with
\* a string appended to errors, returned with the resolved class, or an
\* exception leaves the filter
ProjectedSilent == "returned, nothing added"
ProjectedError == "returned, one string appended to errors"
ProjectedResolved == "returned, service_cls set"
ModuleError == "exception raised by the plugin module"

\* PluginInfoFilter.filter(obj): installed is obj.get("installed"),
\* has_name is whether obj has the key "name"
PluginInfoFilter_filter(installed, has_name, manifest) ==
    IF ~installed THEN ProjectedSilent
    ELSE IF manifest \in {"missing", "unparseable"}
    THEN IF has_name THEN ProjectedSilent ELSE KeyError
    ELSE IF manifest = "service_without_dot" THEN ProjectedSilent
    ELSE IF manifest = "class_not_found" THEN ProjectedError
    ELSE IF manifest \in {"import_error", "no_service_field"}
    THEN IF has_name THEN ProjectedError ELSE KeyError
    ELSE IF manifest = "import_raises_other" THEN ModuleError
    ELSE ProjectedResolved

\* a call of the filter on the object of plugin id, whose "installed" is
\* what is_installed answers
filter(id, has_name, manifest) ==
    /\ last' = Call("filter", id,
                    [installed |-> is_installed(id), has_name |-> has_name,
                     manifest |-> manifest],
                    PluginInfoFilter_filter(is_installed(id), has_name,
                                            manifest),
                    0, 0)
    /\ tick' = ~tick
    /\ UNCHANGED <<src_dir, venv_dir, database, active_plugins, plugins,
                   threads>>

(***************************************************************************)
(* The specifications.  Spec is the whole program.  SpecExec is the         *)
(* execution manager alone, on a base path with no plugin directory;        *)
(* SpecInstall is the install manager and the facade alone (no execution    *)
(* record is ever written).                                                 *)
(***************************************************************************)
(***************************************************************************)
(* Calls from two threads.  No manager holds a lock, so a thread that       *)
(* blocks in an external call (git, virtualenv, pip, the ready-wait of a    *)
(* service) lets the other thread run; the statements between two such      *)
(* calls are one step.                                                      *)
(***************************************************************************)
Thread(op, id, pc, result, started) ==
    [op |-> op, id |-> id, pc |-> pc, result |-> result, started |-> started]

\* PluginInstallManager.install up to git.Repo.clone_from: GitPlugin.clone
\* removes a source directory that is present and starts the clone
install_enters(t, id) ==
    /\ ~InFlight(t)
    /\ src_dir' = [src_dir EXCEPT ![id] = InstalledPlugin_clean(src_dir[id])]
    /\ threads' = [threads EXCEPT
            ![t] = Thread("install", id, "clone_from", RetNone, FALSE)]
    /\ UNCHANGED <<venv_dir, database, active_plugins, plugins, last, tick>>

\* git.Repo.clone_from returns or raises (a failed clone does not remove a
\* directory that is there); on an exception install rolls back, else
\* VirtualEnvManager.install returns at once on an existing environment or
\* starts virtualenv.create_environment
clone_from_returns(t, fetch) ==
    /\ threads[t].op = "install" /\ threads[t].pc = "clone_from"
    /\ LET id == threads[t].id
           c == clone(src_dir[id], fetch)
           src == c.src \/ src_dir[id]
           r == uninstall_outcome(src, venv_dir[id])
       IN  IF c.raised
           THEN /\ src_dir' = [src_dir EXCEPT ![id] = r.src]
                /\ venv_dir' = [venv_dir EXCEPT ![id] = r.venv]
                /\ threads' = [threads EXCEPT
                        ![t] = Thread("install", id, "returned", r.result,
                                      FALSE)]
           ELSE /\ src_dir' = [src_dir EXCEPT ![id] = src]
                /\ UNCHANGED venv_dir
                /\ threads' = [threads EXCEPT
                        ![t] = IF venv_exists(id)
                               THEN Thread("install", id, "returned",
                                           RetPlugin, FALSE)
                               ELSE Thread("install", id,
                                           "create_environment", RetNone,
                                           FALSE)]
    /\ UNCHANGED <<database, active_plugins, plugins, last, tick>>

\* virtualenv.create_environment returns: the environment directory is
\* there; with a requirements file pip is started, without one install
\* returns the plugin
create_environment_returns(t, has_requirements) ==
    /\ threads[t].op = "install" /\ threads[t].pc = "create_environment"
    /\ LET id == threads[t].id
       IN  /\ venv_dir' = [venv_dir EXCEPT ![id] = TRUE]
           /\ threads' = [threads EXCEPT
                   ![t] = IF has_requirements
                          THEN Thread("install", id, "check_call", RetNone,
                                      FALSE)
                          ELSE Thread("install", id, "returned", RetPlugin,
                                      FALSE)]
    /\ UNCHANGED <<src_dir, database, active_plugins, plugins, last, tick>>

\* subprocess.check_call of pip returns or raises CalledProcessError; on a
\* failure install rolls back
check_call_returns(t, pip) ==
    /\ threads[t].op = "install" /\ threads[t].pc = "check_call"
    /\ LET id == threads[t].id
           r == uninstall_outcome(src_dir[id], venv_dir[id])
       IN  IF pip = "fail"
           THEN /\ src_dir' = [src_dir EXCEPT ![id] = r.src]
                /\ venv_dir' = [venv_dir EXCEPT ![id] = r.venv]
                /\ threads' = [threads EXCEPT
                        ![t] = Thread("install", id, "returned", r.result,
                                      FALSE)]
           ELSE /\ UNCHANGED <<src_dir, venv_dir>>
                /\ threads' = [threads EXCEPT
                        ![t] = Thread("install", id, "returned", RetPlugin,
                                      FALSE)]
    /\ UNCHANGED <<database, active_plugins, plugins, last, tick>>

\* PluginExecutionManager.activate up to wait_for_start: the two checks,
\* the construction of the service and service_start
activate_enters(t, id, start_raises) ==
    /\ ~InFlight(t)
    /\ threads' = [threads EXCEPT
            ![t] = IF ~is_enabled(id)
                   THEN Thread("activate", id, "returned", NotEnabledError,
                               FALSE)
                   ELSE IF is_active(id)
                   THEN Thread("activate", id, "returned", RetTrue, FALSE)
                   ELSE IF start_raises
                   THEN Thread("activate", id, "returned", ServiceError,
                               FALSE)
                   ELSE Thread("activate", id, "wait_for_start", RetNone,
                               TRUE)]
    /\ UNCHANGED <<src_dir, venv_dir, database, active_plugins, plugins,
                   last, tick>>

\* wait_for_start returns: a ready service is stored under the id, a
\* service that is not ready is stopped and activate raises
wait_for_start_returns(t, ready) ==
    /\ threads[t].op = "activate" /\ threads[t].pc = "wait_for_start"
    /\ LET id == threads[t].id
       IN  IF ready
           THEN /\ active_plugins' = [active_plugins EXCEPT ![id] = Service]
                /\ threads' = [threads EXCEPT
                        ![t] = Thread("activate", id, "returned", RetTrue,
                                      TRUE)]
           ELSE /\ UNCHANGED active_plugins
                /\ threads' = [threads EXCEPT
                        ![t] = Thread("activate", id, "returned",
                                      StartFailedError, FALSE)]
    /\ UNCHANGED <<src_dir, venv_dir, database, plugins, last, tick>>

ExecNext ==
    \/ \E id \in PluginIds, token \in Tokens : insert(id, token)
    \/ \E id \in PluginIds : enable(id)
    \/ \E id \in PluginIds : disable(id)
    \/ \E id \in PluginIds, token \in Tokens : update_token(id, token)
    \/ \E id \in PluginIds, svc \in StartOutcomes : activate(id, svc)
    \/ \E id \in PluginIds, stop \in StopOutcomes : deactivate(id, stop)

InstallNext ==
    \/ \E id \in PluginIds, i \in InstallInputs :
            PluginInstallManager_install(id, i)
    \/ \E id \in PluginIds : PluginInstallManager_uninstall(id)
    \/ \E repos \in SUBSET PluginIds : PluginManager_start(repos)
    \/ \E id \in PluginIds : PluginManager_install(id)
    \/ \E id \in PluginIds : PluginManager_uninstall(id)

FacadeNext ==
    \/ \E id \in PluginIds : PluginManager_activate(id)
    \/ \E id \in PluginIds : PluginManager_deactivate(id)
    \/ \E id \in PluginIds, token \in Tokens :
            PluginManager_update_token(id, token)
    \/ PluginManager_list

ProjectNext ==
    \/ \E id \in PluginIds, has_name \in BOOLEAN,
          manifest \in ManifestStates : filter(id, has_name, manifest)
    \/ \E repos \in SUBSET PluginIds : PluginManager_start(repos)

InstallThreadsNext ==
    \/ \E t \in Threads, id \in PluginIds : install_enters(t, id)
    \/ \E t \in Threads, fetch \in FetchOutcomes : clone_from_returns(t, fetch)
    \/ \E t \in Threads, has_requirements \in BOOLEAN :
            create_environment_returns(t, has_requirements)
    \/ \E t \in Threads, pip \in PipOutcomes : check_call_returns(t, pip)

ActivateThreadsNext ==
    \/ \E id \in PluginIds, token \in Tokens : insert(id, token)
    \/ \E id \in PluginIds : enable(id)
    \/ \E t \in Threads, id \in PluginIds, start_raises \in BOOLEAN :
            activate_enters(t, id, start_raises)
    \/ \E t \in Threads, ready \in BOOLEAN : wait_for_start_returns(t, ready)

Next == ExecNext \/ InstallNext \/ FacadeNext

Spec == Init /\ [][Next]_vars

\* the state after construction on a base path with no plugin directory
InitExec ==
    /\ Init
    /\ \A id \in PluginIds : ~src_dir[id] /\ ~venv_dir[id]

SpecExec == InitExec /\ [][ExecNext]_vars

SpecInstall == Init /\ [][InstallNext]_vars

\* the state projection alone, applied to every input
SpecProject == Init /\ [][ProjectNext]_vars

\* install calls from two threads, on a base path with no plugin directory
SpecInstallThreads == InitExec /\ [][InstallThreadsNext]_vars

\* activate calls from two threads
SpecActivateThreads == InitExec /\ [][ActivateThreadsNext]_vars

(***************************************************************************)
(* Properties of the execution manager (checked under SpecExec).            *)
(***************************************************************************)
\* C1: in every reachable state, every active plugin is enabled
\* (is_active(id) implies is_enabled(id)).
ActiveImpliesEnabled ==
    \A id \in PluginIds : is_active(id) => is_enabled(id)

\* C2: after a deactivate of an active plugin (one that reached the stop
\* call, whether stop returned or raised) the plugin is no longer active.
DeactivateRemovesHandle ==
    (last.op = "deactivate" /\ last.input # NoInput)
        => active_plugins[last.id] = NoService

\* C3: an activate of a plugin that is not enabled fails with the
\* not-enabled error, starts no service and leaves the active set unchanged.
ActivateNotEnabledFails ==
    [][\A id \in PluginIds :
        (tick' # tick /\ last'.op = "activate" /\ last'.id = id
            /\ ~is_enabled(id))
        => /\ last'.result = NotEnabledError
           /\ last'.starts = 0
           /\ active_plugins' = active_plugins]_vars

\* an activate was refused for a record whose flag is set and whose token
\* is empty, while the other plugin is active
ActivateNotEnabledSeen ==
    /\ last.op = "activate"
    /\ last.result = NotEnabledError
    /\ database[last.id] # NoRecord
    /\ database[last.id].enabled
    /\ \E other \in PluginIds \ {last.id} : active_plugins[other] = Service

\* C4: an activate that follows at once a successful activate of the same
\* plugin succeeds too, starts nothing, and leaves the one entry of the id
\* in the active set.
ActivateTwiceIdempotent ==
    [][\A id \in PluginIds :
        (tick' # tick
            /\ last.op = "activate" /\ last.id = id /\ last.result = RetTrue
            /\ last'.op = "activate" /\ last'.id = id)
        => /\ last'.result = RetTrue
           /\ last'.starts = 0
           /\ active_plugins'[id] = Service
           /\ active_plugins' = active_plugins]_vars

\* an activate found the plugin active already and returned True
ActivateTwiceSeen ==
    /\ last.op = "activate"
    /\ last.result = RetTrue
    /\ last.input = NoInput
    /\ active_plugins[last.id] = Service

\* C5: a deactivate of a plugin that is not in the active set fails with the
\* not-active error, stops no service, and changes neither the active set
\* nor the execution records.
DeactivateNotActiveFails ==
    [][\A id \in PluginIds :
        (tick' # tick /\ last'.op = "deactivate" /\ last'.id = id
            /\ active_plugins[id] = NoService)
        => /\ last'.result = NotActiveError
           /\ last'.stops = 0
           /\ active_plugins' = active_plugins
           /\ database' = database]_vars

\* a deactivate was refused for a plugin that has a record, while the other
\* plugin is active
DeactivateNotActiveSeen ==
    /\ last.op = "deactivate"
    /\ last.result = NotActiveError
    /\ database[last.id] # NoRecord
    /\ \E other \in PluginIds \ {last.id} : active_plugins[other] = Service

ActiveImpliesInstalled ==
    \A id \in PluginIds : is_active(id) => is_installed(id)

(***************************************************************************)
(* Properties of the install manager (checked under SpecInstall).           *)
(***************************************************************************)
\* C8: an install whose clone succeeds and whose dependency installation
\* fails returns the failure result (None) and leaves the plugin not
\* installed, with neither the source nor the environment directory.
ProvisionFailureRollsBack ==
    [][\A id \in PluginIds :
        (tick' # tick /\ last'.op = "install" /\ last'.id = id
            /\ last'.input = [fetch |-> "ok", has_requirements |-> TRUE,
                              pip |-> "fail"]
            /\ ~venv_dir[id])
        => /\ last'.result = RetNone
           /\ ~is_installed(id)'
           /\ ~src_dir'[id]
           /\ ~venv_dir'[id]]_vars

\* an install has cloned, failed in pip and rolled back
ProvisionFailureSeen ==
    /\ last.op = "install"
    /\ last.input = [fetch |-> "ok", has_requirements |-> TRUE, pip |-> "fail"]
    /\ last.result = RetNone
    /\ ~src_dir[last.id]
    /\ ~venv_dir[last.id]

\* C9: an install whose clone fails returns the failure result (the facade
\* answers 400 for a catalogued id) and leaves neither directory of the id.
FetchFailureRollsBack ==
    /\ (last.op = "install" /\ last.input.fetch # "ok")
        => /\ last.result = RetNone
           /\ ~src_dir[last.id]
           /\ ~venv_dir[last.id]
    /\ (last.op = "facade_install" /\ last.input # NoInput
            /\ last.input.fetch # "ok")
        => /\ last.result = "400"
           /\ ~src_dir[last.id]
           /\ ~venv_dir[last.id]

\* C10: an uninstall completes without raising and leaves neither directory
\* of the id, whatever was on disk before.
UninstallNeverFails ==
    last.op = "uninstall"
        => /\ last.result = RetNone
           /\ ~src_dir[last.id]
           /\ ~venv_dir[last.id]

\* C11: an uninstall that follows at once a successful install of the same
\* id returns normally and leaves the plugin not installed, with neither
\* the source nor the environment directory.
InstallThenUninstallLeavesNothing ==
    [][\A id \in PluginIds :
        (tick' # tick
            /\ last.op = "install" /\ last.id = id /\ last.result = RetPlugin
            /\ last'.op = "uninstall" /\ last'.id = id)
        => /\ last'.result = RetNone
           /\ ~is_installed(id)'
           /\ ~src_dir'[id]
           /\ ~venv_dir'[id]]_vars

\* an uninstall has found the environment directory, removed both
\* directories and returned
InstallThenUninstallSeen ==
    /\ last.op = "uninstall"
    /\ last.result = RetNone
    /\ ~src_dir[last.id]
    /\ ~venv_dir[last.id]

\* C12: is_installed(id) is true if and only if both the source directory
\* and the environment directory of id exist.
InstalledIffBothDirectories ==
    \A id \in PluginIds : is_installed(id) <=> (src_dir[id] /\ venv_dir[id])

(***************************************************************************)
(* Further properties of the execution manager (checked under SpecExec).    *)
(***************************************************************************)
\* a token that is empty or made of whitespace only
IsBlank(token) == \A k \in 1..Len(token) : token[k] = " "

\* C13: for every plugin id, with or without an execution record, an
\* update_token with a non-blank token that follows at once an enable makes
\* the plugin enabled; a disable of an enabled plugin makes it not enabled
\* and keeps the stored token; an enable on an empty token (or on no record)
\* leaves the plugin not enabled.
EnableThenTokenEnables ==
    [][\A id \in PluginIds :
        /\ (tick' # tick
                /\ last.op = "enable" /\ last.id = id
                /\ last'.op = "update_token" /\ last'.id = id
                /\ ~IsBlank(last'.input.token))
            => /\ is_enabled(id)'
               /\ database'[id].app_secret_token = last'.input.token
        /\ (tick' # tick /\ last'.op = "disable" /\ last'.id = id
                /\ is_enabled(id))
            => /\ ~is_enabled(id)'
               /\ database'[id].app_secret_token = database[id].app_secret_token
        /\ (tick' # tick /\ last'.op = "enable" /\ last'.id = id
                /\ (query_raises(id) \/ database[id].app_secret_token = <<>>))
            => ~is_enabled(id)']_vars

\* C14: an update_token with an empty or whitespace-only token fails with
\* the invalid-token error and leaves every execution record unchanged,
\* whether or not the id has a record.
BlankTokenRejected ==
    [][\A id \in PluginIds :
        (tick' # tick /\ last'.op = "update_token" /\ last'.id = id
            /\ IsBlank(last'.input.token))
        => /\ last'.result = InvalidTokenError
           /\ database' = database]_vars

\* an update_token with a whitespace token was refused for a plugin that
\* has a record, while the other plugin has none
BlankTokenSeen ==
    /\ last.op = "update_token"
    /\ last.input.token = <<" ">>
    /\ last.result = InvalidTokenError
    /\ database[last.id] # NoRecord
    /\ \E other \in PluginIds \ {last.id} : database[other] = NoRecord

\* C18: an activate whose start failed, by a timeout of the wait or by an
\* exception of service_start, has called service_stop before it fails.
FailedStartCallsStop ==
    (last.op = "activate"
        /\ last.input \in {[svc |-> "timeout"], [svc |-> "start_raises"]})
    => /\ last.stops >= 1
       /\ last.result \in {StartFailedError, ServiceError}

(***************************************************************************)
(* Properties of the facade (checked under Spec) and of the state           *)
(* projection (checked under SpecProject).                                  *)
(***************************************************************************)
\* C16: a facade operation that takes an id answers 404 when the id is not
\* in the catalog (and then changes no state).
UnknownIdAnswers404 ==
    (last.op \in {"facade_install", "facade_uninstall", "facade_activate",
                  "facade_deactivate", "facade_update_token"}
        /\ plugins[last.id] = NoInfo)
    => last.result = "404"

\* C17: the projection of an installed plugin never raises (neither the
\* filter nor the projection of the listed repositories in start), and
\* every manifest that does not resolve to a class adds a string to errors.
ProjectionCapturesFailures ==
    /\ (last.op = "filter" /\ last.input.installed)
        => /\ last.result \in {ProjectedSilent, ProjectedError, ProjectedResolved}
           /\ last.input.manifest # "ok" => last.result = ProjectedError
    /\ last.op = "start" => last.result = RetNone

InstallsKeepDirectories ==
    \A t \in Threads :
        threads[t].op = "install"
        => /\ threads[t].pc \in {"create_environment", "check_call"}
                => src_dir[threads[t].id]
           /\ threads[t].pc = "check_call" => venv_dir[threads[t].id]

\* C19: for every id, at most one thread holds a service that was started
\* and not stopped (waiting for it, or returned from the activate that
\* started it).
NoDoubleStart ==
    \A t, u \in Threads :
        (t # u /\ threads[t].op = "activate" /\ threads[u].op = "activate"
            /\ threads[t].id = threads[u].id)
        => ~(threads[t].started /\ threads[u].started)

====
